---- MODULE Spec2Model ----
(***************************************************************************)
(* Model of RPi/GPIO.py, the RPi.GPIO interception package that redirects  *)
(* RPi.GPIO calls to lgpio.                                                *)
(*                                                                         *)
(* Program state: mode_board, pins, callbacks and the PWMInstance objects. *)
(* The lgpio library is external: each call to it either succeeds or       *)
(* raises, chosen nondeterministically.  The variable last records the     *)
(* most recent call of the package and everything its caller (or lgpio)    *)
(* can observe of it: the exception that left the function, the value      *)
(* returned, the lgpio calls attempted in order, the user callbacks        *)
(* invoked in order and the messages printed (print itself is taken to     *)
(* succeed).  For add_event_detect, args.was is the registry entry the     *)
(* call replaced ("absent" if none).                                       *)
(* lastSet is the argument of the most recent setmode call (BCM before     *)
(* any), kept to state what mode_board should be.                          *)
(***************************************************************************)
EXTENDS Integers, Sequences, FiniteSets

VARIABLES mode_board, pins, callbacks, pwm, last, lastSet, txlog, hist

vars == <<mode_board, pins, callbacks, pwm, last, lastSet, txlog, hist>>

(* ----------------------------- constants ------------------------------ *)

BOARD == 10
BCM == 11
HIGH == 1
LOW == 0
OUT == 0
\* IN = 1 in the source; IN is a TLA+ keyword.
GPIO_IN == 1
PUD_OFF == 20
PUD_DOWN == 21
PUD_UP == 22
RISING == 31
FALLING == 32
BOTH == 33
LGPIO_PULL_UP == 32
LGPIO_PULL_DOWN == 64
LGPIO_PULL_OFF == 128

\* The mapping between GPIO.BOARD and GPIO.BCM.
PinTable ==
    [k \in {3, 5, 7, 8, 10, 11, 12, 13, 15, 16, 18, 19, 21, 22, 23, 24, 26, 27,
            28, 29, 31, 32, 33, 35, 36, 37, 38, 40} |->
        CASE k = 3 -> 2  [] k = 5 -> 3  [] k = 7 -> 4  [] k = 8 -> 14
          [] k = 10 -> 15 [] k = 11 -> 17 [] k = 12 -> 18 [] k = 13 -> 27
          [] k = 15 -> 22 [] k = 16 -> 23 [] k = 18 -> 24 [] k = 19 -> 10
          [] k = 21 -> 9  [] k = 22 -> 25 [] k = 23 -> 11 [] k = 24 -> 8
          [] k = 26 -> 7  [] k = 27 -> 0  [] k = 28 -> 1  [] k = 29 -> 5
          [] k = 31 -> 6  [] k = 32 -> 12 [] k = 33 -> 13 [] k = 35 -> 19
          [] k = 36 -> 16 [] k = 37 -> 26 [] k = 38 -> 20 [] k = 40 -> 21]

(* --------------------------- Python values ---------------------------- *)

PyNone == [t |-> "NoneType", v |-> 0]
PyInt(n) == [t |-> "int", v |-> n]

PyStr == [t |-> "str", v |-> 0]
\* A tuple or a list of scalar values.
PyTuple(items) == [t |-> "tuple", v |-> 0, items |-> items]
PyList(items) == [t |-> "list", v |-> 0, items |-> items]
\* A scalar value in argument position.
PyArg(x) == [t |-> x.t, v |-> x.v, items |-> <<>>]

NoException == "none"

\* The operation record of a call that made no lgpio call, invoked no
\* callback and printed nothing.
Quiet(op, args) ==
    [op |-> op, args |-> args, exc |-> NoException, value |-> PyNone,
     calls |-> <<>>, invoked |-> <<>>, diag |-> <<>>]

(* ------------------------------- bounds ------------------------------- *)

\* Total number of PWM factory and PWMInstance method calls in one behaviour.
MaxPwmOps == 3
\* Longest tuple or list handed to setup.
MaxTuple == 2

\* Pin arguments: board pin 3 maps to line 2, which is itself no board pin;
\* 4 is no board pin; board pin 5 maps to line 3, which is itself a board pin.
PinInputs == {3, 4, 5}
\* Pins handed to add_event_detect.
EventPins == {3, 5}
\* The lines those translate to in either mode: what lgpio can report.
LineInputs == {2, 3, 5}
\* setmode arguments: BOARD, BCM and a value that is neither.
ModeInputs == {BOARD, BCM, 0}
\* add_event_detect edge arguments: the three known ones and an unknown one.
EdgeInputs == {RISING, FALLING, BOTH, 0}
\* User callbacks; "None" is the omitted callback (callback=None).
Handlers == {"h1", "h2"}
CallbackInputs == Handlers \cup {"None"}
BouncetimeInputs == {200}
\* The elements of the tuples and lists handed to setup: two pins and a
\* value that is no integer.
ElementInputs == {PyInt(4), PyInt(5), PyStr}
\* setup's gpios argument: a pin, a string, None, and every tuple and list of
\* at most MaxTuple elements.
GpiosInputs ==
    {PyArg(PyInt(n)) : n \in PinInputs} \cup {PyArg(PyStr), PyArg(PyNone)}
    \cup UNION {{PyTuple(q), PyList(q)} : q \in UNION {[1..n -> ElementInputs] : n \in 0..MaxTuple}}
\* setup's mode and pull_up_down: OUT, IN with each pull and with an unknown
\* one, and a mode that is neither.
DirectionInputs ==
    {<<OUT, PUD_OFF>>, <<5, PUD_OFF>>}
    \cup {<<GPIO_IN, p>> : p \in {PUD_OFF, PUD_DOWN, PUD_UP, 0}}
\* Pins, frequencies and duty cycles handed to PWM and its methods.
PwmPins == {4, 5}
FrequencyInputs == {100, 250}
DutyInputs == {50, 100}
\* Level codes lgpio hands to the dispatcher.
LevelInputs == {0, 1, 2}
\* What a user callback does when called: return, raise an exception derived
\* from Exception, or raise SystemExit (a BaseException that is no Exception).
Behaviours == {"return", "Exception", "SystemExit"}

(* ------------------------- numbering and mode ------------------------- *)

\* Mutant: setmode that switches BOARD numbering on and never off again.
ModeNeverReset(mode) == mode = BOARD \/ mode_board

\* The value setmode leaves in mode_board: any mode other than BOARD is BCM.
ModeAfterSetmode(mode) == mode = BOARD

setmode(mode) ==
    /\ mode_board' = ModeAfterSetmode(mode)
    /\ last' = Quiet("setmode", [mode |-> mode])
    /\ lastSet' = mode
    /\ UNCHANGED <<pins, callbacks, pwm, txlog, hist>>

\* pins[line] in BOARD mode, with the lookup miss swallowed; line otherwise.
_get_gpio(line) ==
    IF mode_board
    THEN IF line \in DOMAIN pins THEN pins[line] ELSE line
    ELSE line

(* ------------------------------ lgpio --------------------------------- *)

\* An lgpio call as attempted: its function, line and further arguments, and
\* whether it returned (ok) or raised.
LgCall(fn, gpio, a, b, ok) == [fn |-> fn, gpio |-> gpio, a |-> a, b |-> b, ok |-> ok]

\* Mutant: the call is not wrapped in try/except at all.
CatchesNothing(e) == FALSE

\* except Exception: the exceptions an "except Exception" clause catches.
\* SystemExit derives from BaseException only and passes through.
CaughtByExceptException(e) ==
    e \in {"Exception", "KeyError", "TypeError", "lgpio.error"}

(* --------------------------- edge detection --------------------------- *)

\* callbacks[gpio] = callback
StoreCallback(cbs, gpio, callback) ==
    [l \in DOMAIN cbs \cup {gpio} |-> IF l = gpio THEN callback ELSE cbs[l]]

\* The lgpio edge constant for an RPi.GPIO edge; unknown edges mean BOTH_EDGES.
Detect(edge) ==
    IF edge = RISING THEN "RISING_EDGE"
    ELSE IF edge = FALLING THEN "FALLING_EDGE"
    ELSE IF edge = BOTH THEN "BOTH_EDGES"
    ELSE "BOTH_EDGES"

\* The three lgpio calls of add_event_detect's try block, in program order.
EventSteps(gpio, detect, bouncetime) ==
    << LgCall("callback", gpio, detect, "_gpio_event", TRUE),
       LgCall("gpio_claim_alert", gpio, detect, 0, TRUE),
       LgCall("gpio_set_debounce_micros", gpio, bouncetime, 0, TRUE) >>

\* Mutant: each lgpio call in a try block of its own, so that a failing step
\* does not stop the later ones.
AttemptedAll(steps, fail) ==
    [i \in 1..Len(steps) |-> IF i = fail THEN [steps[i] EXCEPT !.ok = FALSE]
                                          ELSE steps[i]]

\* The calls attempted when step `fail` raises (0: none raises): the steps up
\* to and including the failing one, which is marked as raised.
AttemptedSteps(steps, fail) ==
    IF fail = 0 THEN steps
    ELSE [i \in 1..fail |-> IF i = fail THEN [steps[i] EXCEPT !.ok = FALSE]
                                         ELSE steps[i]]

add_event_detect(gpio_arg, edge, callback, bouncetime, fail) ==
    LET gpio == _get_gpio(gpio_arg)
        detect == Detect(edge)
        calls == AttemptedSteps(EventSteps(gpio, detect, bouncetime), fail)
        raised == IF fail = 0 THEN NoException ELSE "lgpio.error"
        caught == raised # NoException /\ CaughtByExceptException(raised)
    IN  /\ callbacks' = StoreCallback(callbacks, gpio, callback)
        /\ last' = [op |-> "add_event_detect",
                    args |-> [gpio |-> gpio_arg, edge |-> edge,
                              callback |-> callback, bouncetime |-> bouncetime,
                              was |-> IF gpio \in DOMAIN callbacks
                                      THEN callbacks[gpio] ELSE "absent"],
                    exc |-> IF caught THEN NoException ELSE raised,
                    value |-> PyNone,
                    calls |-> calls,
                    invoked |-> <<>>,
                    diag |-> IF caught THEN <<raised>> ELSE <<>>]
        /\ UNCHANGED <<mode_board, pins, pwm, lastSet, txlog, hist>>

\* What callbacks[gpio](gpio) does inside the dispatcher's try block: the
\* callbacks invoked, each with its argument, and the exception raised.
CallCallback(gpio, behaviour) ==
    IF gpio \notin DOMAIN callbacks
    THEN [invoked |-> <<>>, raised |-> "KeyError"]
    ELSE IF callbacks[gpio] = "None"
    THEN [invoked |-> <<>>, raised |-> "TypeError"]
    ELSE [invoked |-> <<[handler |-> callbacks[gpio], arg |-> gpio]>>,
          raised |-> IF behaviour = "return" THEN NoException ELSE behaviour]

_gpio_event(gpio_arg, level, behaviour) ==
    LET gpio == _get_gpio(gpio_arg)
        args == [gpio |-> gpio_arg, level |-> level, behaviour |-> behaviour]
    IN  /\ IF level < 2
           THEN LET r == CallCallback(gpio, behaviour)
                    caught == r.raised # NoException
                              /\ CaughtByExceptException(r.raised)
                IN  last' = [op |-> "_gpio_event", args |-> args,
                             exc |-> IF caught THEN NoException ELSE r.raised,
                             value |-> PyNone,
                             calls |-> <<>>,
                             invoked |-> r.invoked,
                             diag |-> IF caught THEN <<r.raised>> ELSE <<>>]
           ELSE last' = Quiet("_gpio_event", args)
        /\ UNCHANGED <<mode_board, pins, callbacks, pwm, lastSet, txlog, hist>>

(* ------------------------------ level I/O ----------------------------- *)

\* What lgpio.gpio_read does: return a level or raise.
ReadOutcomes == {[ok |-> TRUE, level |-> LOW], [ok |-> TRUE, level |-> HIGH],
                 [ok |-> FALSE, level |-> LOW]}

\* Mutant: level initialised to LOW instead of None.
ReadResultLow(outcome) == IF outcome.ok THEN PyInt(outcome.level) ELSE PyInt(LOW)

\* The value input returns: level starts as PyNone and is assigned only when
\* gpio_read returns.
ReadResult(outcome) == IF outcome.ok THEN PyInt(outcome.level) ELSE PyNone

input(gpio_arg, outcome) ==
    LET gpio == _get_gpio(gpio_arg)
        raised == IF outcome.ok THEN NoException ELSE "lgpio.error"
        caught == raised # NoException /\ CaughtByExceptException(raised)
    IN  /\ last' = [op |-> "input", args |-> [gpio |-> gpio_arg],
                    exc |-> IF caught THEN NoException ELSE raised,
                    value |-> ReadResult(outcome),
                    calls |-> <<LgCall("gpio_read", gpio, 0, 0, outcome.ok)>>,
                    invoked |-> <<>>,
                    diag |-> IF caught THEN <<raised>> ELSE <<>>]
        /\ UNCHANGED <<mode_board, pins, callbacks, pwm, lastSet, txlog, hist>>

output(gpio_arg, level, ok) ==
    LET gpio == _get_gpio(gpio_arg)
        raised == IF ok THEN NoException ELSE "lgpio.error"
        caught == raised # NoException /\ CaughtByExceptException(raised)
    IN  /\ last' = [op |-> "output", args |-> [gpio |-> gpio_arg, level |-> level],
                    exc |-> IF caught THEN NoException ELSE raised,
                    value |-> PyNone,
                    calls |-> <<LgCall("gpio_write", gpio, level, 0, ok)>>,
                    invoked |-> <<>>,
                    diag |-> IF caught THEN <<raised>> ELSE <<>>]
        /\ UNCHANGED <<mode_board, pins, callbacks, pwm, lastSet, txlog, hist>>

(* ------------------------- line configuration ------------------------- *)

\* _get_gpio on a value of any type: a value that is no integer misses the
\* table (or cannot be hashed), the bare except passes, and it is returned
\* as it came.
GetGpioValue(x) == IF x.t = "int" THEN PyInt(_get_gpio(x.v)) ELSE x

\* gpios = (gpios,)
AsTuple(gpios) == PyTuple(<<[t |-> gpios.t, v |-> gpios.v]>>)

\* Mutant: isinstance(gpios, (tuple, list)).
IsTupleOrList(gpios) == gpios.t \in {"tuple", "list"}

\* isinstance(gpios, tuple)
IsTuple(gpios) == gpios.t = "tuple"

PullKnown(pull_up_down) == pull_up_down \in {PUD_UP, PUD_DOWN, PUD_OFF}

\* The lgpio flag for a pull; pullupdown stays unbound for any other value.
PullFlag(pull_up_down) ==
    IF pull_up_down = PUD_UP THEN LGPIO_PULL_UP
    ELSE IF pull_up_down = PUD_DOWN THEN LGPIO_PULL_DOWN
    ELSE LGPIO_PULL_OFF

\* lgpio raises in the claim of element i when it is the failing call, and
\* always when the line handed to it is no integer (its binding takes an int).
ClaimRaises(gpio, i, fail) == gpio.t # "int" \/ i = fail
ClaimException(gpio) == IF gpio.t # "int" THEN "TypeError" ELSE "lgpio.error"

\* The for loop of setup from element i on: the lgpio calls attempted and the
\* exception that ends the loop.  No call is wrapped in try/except.
RECURSIVE SetupLoop(_, _, _, _, _)
SetupLoop(items, i, mode, pull_up_down, fail) ==
    IF i > Len(items) THEN [exc |-> NoException, calls |-> <<>>]
    ELSE LET gpio == GetGpioValue(items[i])
             ok == ~ ClaimRaises(gpio, i, fail)
             rest == SetupLoop(items, i + 1, mode, pull_up_down, fail)
         IN  IF mode = GPIO_IN
             THEN IF ~ PullKnown(pull_up_down)
                  THEN [exc |-> "UnboundLocalError", calls |-> <<>>]
                  ELSE LET c == LgCall("gpio_claim_input", gpio,
                                       PullFlag(pull_up_down), 0, ok)
                       IN  IF ok THEN [exc |-> rest.exc, calls |-> <<c>> \o rest.calls]
                           ELSE [exc |-> ClaimException(gpio), calls |-> <<c>>]
             ELSE IF mode = OUT
             THEN LET c == LgCall("gpio_claim_output", gpio, 0, 0, ok)
                  IN  IF ok THEN [exc |-> rest.exc, calls |-> <<c>> \o rest.calls]
                      ELSE [exc |-> ClaimException(gpio), calls |-> <<c>>]
             ELSE rest

setup(gpios_arg, mode, pull_up_down, fail) ==
    LET gpios == IF gpios_arg.t = "int" THEN AsTuple(gpios_arg) ELSE gpios_arg
        args == [gpios |-> gpios_arg, mode |-> mode,
                 pull_up_down |-> pull_up_down]
        r == IF ~ IsTuple(gpios)
             THEN [exc |-> "TypeError", calls |-> <<>>]
             ELSE SetupLoop(gpios.items, 1, mode, pull_up_down, fail)
    IN  /\ last' = [op |-> "setup", args |-> args, exc |-> r.exc,
                    value |-> PyNone, calls |-> r.calls,
                    invoked |-> <<>>, diag |-> <<>>]
        /\ UNCHANGED <<mode_board, pins, callbacks, pwm, lastSet, txlog, hist>>

(* -------------------------------- PWM --------------------------------- *)

\* pwm holds the PWMInstance objects in creation order; a channel is named by
\* its index.  txlog holds the tx_pwm requests handed to lgpio in order, each
\* tagged with the channel that issued it; hist holds the factory and method
\* calls made, in order.  tx_pwm is called outside any try block, so when it
\* raises the exception leaves the method.

PWM(gpio_arg, frequency) ==
    LET gpio == _get_gpio(gpio_arg)
    IN  /\ Len(hist) < MaxPwmOps
        /\ pwm' = Append(pwm, [gpio |-> gpio, frequency |-> frequency,
                               duty_cycle |-> 0])
        /\ hist' = Append(hist, [m |-> "PWM", ch |-> Len(pwm) + 1, a |-> frequency])
        /\ last' = Quiet("PWM", [gpio |-> gpio_arg, frequency |-> frequency])
        /\ UNCHANGED <<mode_board, pins, callbacks, lastSet, txlog>>

\* lgpio.tx_pwm(chip, self.gpio, frequency, duty_cycle) issued by channel ch.
TxPwm(ch, gpio, frequency, duty_cycle) ==
    [ch |-> ch, gpio |-> gpio, frequency |-> frequency, duty_cycle |-> duty_cycle]

\* A method call m(a) on channel ch that leaves the instance as self and
\* issues request tx, which lgpio accepts (ok) or refuses by raising.
Method(m, ch, a, self, tx, ok) ==
    /\ Len(hist) < MaxPwmOps
    /\ pwm' = [pwm EXCEPT ![ch] = self]
    /\ txlog' = Append(txlog, tx)
    /\ hist' = Append(hist, [m |-> m, ch |-> ch, a |-> a])
    /\ last' = [op |-> m, args |-> [ch |-> ch, a |-> a],
                exc |-> IF ok THEN NoException ELSE "lgpio.error",
                value |-> PyNone,
                calls |-> <<LgCall("tx_pwm", tx.gpio, tx.frequency, tx.duty_cycle, ok)>>,
                invoked |-> <<>>, diag |-> <<>>]
    /\ UNCHANGED <<mode_board, pins, callbacks, lastSet>>

ChangeDutyCycleAs(m, ch, duty_cycle, ok) ==
    LET self == [pwm[ch] EXCEPT !.duty_cycle = duty_cycle]
    IN  Method(m, ch, duty_cycle, self,
               TxPwm(ch, self.gpio, self.frequency, self.duty_cycle), ok)

ChangeDutyCycle(ch, duty_cycle, ok) ==
    ChangeDutyCycleAs("ChangeDutyCycle", ch, duty_cycle, ok)

\* start calls self.ChangeDutyCycle(duty_cycle).
start(ch, duty_cycle, ok) == ChangeDutyCycleAs("start", ch, duty_cycle, ok)

ChangeFrequency(ch, frequency, ok) ==
    LET self == [pwm[ch] EXCEPT !.frequency = frequency]
    IN  Method("ChangeFrequency", ch, frequency, self,
               TxPwm(ch, self.gpio, self.frequency, self.duty_cycle), ok)

\* Mutant: stop that zeroes the duty cycle and keeps the frequency.
StopKeepsFrequency(ch, self) == TxPwm(ch, self.gpio, self.frequency, 0)

\* The request stop issues: frequency 0 and duty cycle 0 on the channel's line.
StopRequest(ch, self) == TxPwm(ch, self.gpio, 0, 0)

stop(ch, ok) == Method("stop", ch, 0, pwm[ch], StopRequest(ch, pwm[ch]), ok)

(* --------------------------- specifications --------------------------- *)

Init ==
    /\ mode_board = FALSE
    /\ pins = PinTable
    /\ callbacks = <<>>
    /\ pwm = <<>>
    /\ last = Quiet("import", [mode |-> BCM])
    /\ lastSet = BCM
    /\ txlog = <<>>
    /\ hist = <<>>

Next ==
    \/ \E mode \in ModeInputs : setmode(mode)
    \/ \E g \in EventPins, e \in EdgeInputs, cb \in CallbackInputs,
          b \in BouncetimeInputs, fail \in 0..3 :
            add_event_detect(g, e, cb, b, fail)
    \/ \E g \in LineInputs, lv \in LevelInputs, bh \in Behaviours :
            _gpio_event(g, lv, bh)
    \/ \E g \in PinInputs, o \in ReadOutcomes : input(g, o)
    \/ \E g \in PinInputs, lv \in {LOW, HIGH}, ok \in BOOLEAN : output(g, lv, ok)

Spec == Init /\ [][Next]_vars

NextSetup ==
    \/ \E mode \in ModeInputs : setmode(mode)
    \/ \E g \in GpiosInputs, d \in DirectionInputs, fail \in 0..MaxTuple :
            setup(g, d[1], d[2], fail)

SpecSetup == Init /\ [][NextSetup]_vars

NextPwm ==
    \/ \E mode \in ModeInputs : setmode(mode)
    \/ \E g \in PwmPins, f \in FrequencyInputs : PWM(g, f)
    \/ \E ch \in DOMAIN pwm, d \in DutyInputs, ok \in BOOLEAN : start(ch, d, ok)
    \/ \E ch \in DOMAIN pwm, d \in DutyInputs, ok \in BOOLEAN :
            ChangeDutyCycle(ch, d, ok)
    \/ \E ch \in DOMAIN pwm, f \in FrequencyInputs, ok \in BOOLEAN :
            ChangeFrequency(ch, f, ok)
    \/ \E ch \in DOMAIN pwm, ok \in BOOLEAN : stop(ch, ok)

SpecPwm == Init /\ [][NextPwm]_vars

(* ------------------------------ properties ---------------------------- *)

Range(f) == {f[x] : x \in DOMAIN f}

\* The integers _get_gpio is probed with: every board pin and integers that
\* are none (negative, zero, between board pins, above the connector).
ProbeInputs == -2..42

\* C1: after add_event_detect(p, kind, h) with a real handler h, a dispatch
\* carrying the line p translates to, with level 0 or 1, invokes h exactly
\* once, with p as its argument, and invokes nothing else.
C1_DispatchCallsHandlerWithPin ==
    [][ ( /\ last.op = "add_event_detect"
          /\ last.args.callback \in Handlers
          /\ last'.op = "_gpio_event"
          /\ last'.args.gpio = _get_gpio(last.args.gpio)
          /\ last'.args.level \in {0, 1} )
        => last'.invoked = <<[handler |-> last.args.callback,
                              arg |-> last.args.gpio]>> ]_vars

\* C3: mode_board is decided by the most recent setmode argument alone (BCM
\* before any call); _get_gpio maps every board pin to its line in BOARD mode
\* and is the identity otherwise; the pins table keeps its initial value.
C3_TranslateFollowsLastMode ==
    /\ pins = PinTable
    /\ mode_board = (lastSet = BOARD)
    /\ \A x \in ProbeInputs :
          _get_gpio(x) = IF lastSet = BOARD /\ x \in DOMAIN PinTable
                         THEN PinTable[x] ELSE x

C3_Witness ==
    /\ lastSet = BOARD
    /\ last.op = "add_event_detect"
    /\ _get_gpio(5) = 3
    /\ _get_gpio(4) = 4

\* An add_event_detect step leaves its callback as the entry of the translated
\* line, whatever was there, and leaves every other entry alone.
RegistrationReplaces ==
    last'.op = "add_event_detect" =>
        LET key == _get_gpio(last'.args.gpio)
        IN  /\ DOMAIN callbacks' = DOMAIN callbacks \cup {key}
            /\ callbacks'[key] = last'.args.callback
            /\ \A l \in DOMAIN callbacks \ {key} : callbacks'[l] = callbacks[l]

\* C4: the registry holds one entry per line and the last registration wins:
\* add_event_detect replaces the entry of the translated line and no other,
\* and once h2 has replaced h1 on a line, a dispatch for that line does not
\* invoke h1.
C4_LastRegistrationWins ==
    [][ /\ RegistrationReplaces
        /\ ( /\ last.op = "add_event_detect"
              /\ last.args.was \in Handlers
              /\ last.args.was # last.args.callback
              /\ last'.op = "_gpio_event"
              /\ last'.args.gpio = _get_gpio(last.args.gpio) )
            => \A i \in DOMAIN last'.invoked :
                  last'.invoked[i].handler # last.args.was
      ]_vars

\* The calls made on channel c and the requests it issued, in order.
OpsOf(c) == SelectSeq(hist, LAMBDA h : h.ch = c)
TxOf(c) == SelectSeq(txlog, LAMBDA r : r.ch = c)

\* C5: creating a channel issues no request and every method call issues
\* exactly one; for a channel created with frequency f whose frequency was
\* not changed since, start(d) directly followed by stop() issues (f, d) and
\* then (0, 0), both on the channel's line.
C5_StartStopIssuesTwoRequests ==
    \A c \in DOMAIN pwm :
        LET ops == OpsOf(c)
            tx == TxOf(c)
        IN  /\ ops[1].m = "PWM"
            /\ Len(tx) = Len(ops) - 1
            /\ \A i \in 2..(Len(ops) - 1) :
                  ( /\ ops[i].m = "start"
                    /\ ops[i + 1].m = "stop"
                    /\ \A j \in 2..(i - 1) : ops[j].m # "ChangeFrequency" )
                  => /\ tx[i - 1] = TxPwm(c, pwm[c].gpio, ops[1].a, ops[i].a)
                     /\ tx[i] = TxPwm(c, pwm[c].gpio, 0, 0)

C5_Witness ==
    /\ last.op = "stop"
    /\ \E c \in DOMAIN pwm :
          /\ Len(OpsOf(c)) = 3
          /\ OpsOf(c)[2].m = "start"
          /\ OpsOf(c)[3].m = "stop"
          /\ Len(TxOf(c)) = 2
          /\ TxOf(c)[2].frequency = 0

\* C6: input and output never raise and change neither mode_board nor
\* callbacks; output returns None; input returns the level read, or None when
\* gpio_read raised, and None is neither LOW nor HIGH.
C6_LevelIoSwallowsFailure ==
    [][ last'.op \in {"input", "output"} =>
          /\ mode_board' = mode_board
          /\ callbacks' = callbacks
          /\ last'.exc = NoException
          /\ Len(last'.calls) = 1
          /\ last'.op = "output" => last'.value = PyNone
          /\ last'.op = "input" =>
                IF last'.calls[1].ok
                THEN last'.value \in {PyInt(LOW), PyInt(HIGH)}
                ELSE /\ last'.value = PyNone
                     /\ last'.value \notin {PyInt(LOW), PyInt(HIGH)}
                     /\ last'.diag = <<"lgpio.error">>
      ]_vars

C6_Witness ==
    /\ last.op = "input"
    /\ ~ last.calls[1].ok
    /\ last.value = PyNone
    /\ mode_board
    /\ callbacks # <<>>

\* C7: a dispatch with level 2 invokes nothing; a dispatch with level 0 or 1
\* for the line just registered invokes the registered handler, whatever the
\* edge (RISING, FALLING, BOTH or unknown) it was registered for.
C7_FiltersOnLevelOnly ==
    [][ last'.op = "_gpio_event" =>
          /\ last'.args.level = 2 => last'.invoked = <<>>
          /\ ( /\ last.op = "add_event_detect"
                /\ last.args.callback \in Handlers
                /\ last'.args.gpio = _get_gpio(last.args.gpio)
                /\ last'.args.level \in {0, 1} )
              => /\ Len(last'.invoked) = 1
                 /\ last'.invoked[1].handler = last.args.callback
      ]_vars

\* The pins argument of the last setup call is a single integer or a tuple or
\* list holding integers only.
WellFormedPins ==
    LET g == last.args.gpios
    IN  \/ g.t = "int"
        \/ /\ g.t \in {"tuple", "list"}
           /\ \A i \in DOMAIN g.items : g.items[i].t = "int"

\* setup raised the TypeError of its argument check: before any lgpio call.
RejectedUpFront == last.exc = "TypeError" /\ last.calls = <<>>

\* C2 (original): setup raises TypeError before claiming any line exactly when
\* gpios is neither an integer nor a tuple or list of integers.
C2_RejectsExactlyMalformedPins ==
    last.op = "setup" => (RejectedUpFront <=> ~ WellFormedPins)

\* C2 (amended): setup raises TypeError before claiming any line exactly when
\* gpios is neither an integer nor a tuple: every list is rejected, and a
\* tuple is let through whatever its elements are.
C2_RejectsExactlyNonTuples ==
    last.op = "setup" =>
        (RejectedUpFront <=> last.args.gpios.t \notin {"int", "tuple"})

C2_Witness ==
    /\ last.op = "setup"
    /\ last.args.gpios = PyList(<<PyInt(4), PyInt(5)>>)
    /\ RejectedUpFront

\* C8: the only exception that leaves any function of the package is the
\* TypeError of setup's argument check, for a malformed gpios.
C8_OnlyInvalidArgumentPropagates ==
    last.exc # NoException =>
        /\ last.op = "setup"
        /\ RejectedUpFront
        /\ ~ WellFormedPins

\* C9 (original): no dispatch lets an exception out of _gpio_event.
C9_DispatchNeverPropagates ==
    last.op = "_gpio_event" => last.exc = NoException

\* C9 (amended): the only exception a dispatch lets out of _gpio_event is a
\* SystemExit raised by the invoked callback itself; a callback raising an
\* Exception, a line with no entry and a None entry all end in a normal
\* return with the exception printed.
C9_DispatchPropagatesOnlySystemExit ==
    last.op = "_gpio_event" =>
        /\ last.exc \in {NoException, "SystemExit"}
        /\ last.exc = "SystemExit" =>
              /\ last.args.behaviour = "SystemExit"
              /\ Len(last.invoked) = 1
        /\ ( last.args.level < 2 /\ last.args.behaviour # "SystemExit" ) =>
              /\ last.exc = NoException
              /\ Len(last.invoked) = 0 => Len(last.diag) = 1

C9_Witness ==
    /\ last.op = "_gpio_event"
    /\ last.args.behaviour = "Exception"
    /\ Len(last.invoked) = 1
    /\ last.exc = NoException
    /\ last.diag = <<"Exception">>

\* C10: add_event_detect stores the callback under the translated line
\* whether or not lgpio fails, attempts callback, gpio_claim_alert and
\* gpio_set_debounce_micros in this order on that line, stops at the first
\* one that raises, makes no other lgpio call, and returns None normally.
C10_RegistrationStopsAtFirstFailure ==
    last.op = "add_event_detect" =>
        LET key == _get_gpio(last.args.gpio)
            order == <<"callback", "gpio_claim_alert", "gpio_set_debounce_micros">>
            n == Len(last.calls)
        IN  /\ key \in DOMAIN callbacks
            /\ callbacks[key] = last.args.callback
            /\ n \in 1..3
            /\ \A i \in 1..n :
                  /\ last.calls[i].fn = order[i]
                  /\ last.calls[i].gpio = key
                  /\ i < n => last.calls[i].ok
            /\ n < 3 => ~ last.calls[n].ok
            /\ last.exc = NoException
            /\ last.value = PyNone
            /\ Len(last.diag) = (IF last.calls[n].ok THEN 0 ELSE 1)

C10_Witness ==
    /\ last.op = "add_event_detect"
    /\ Len(last.calls) = 2
    /\ ~ last.calls[2].ok
    /\ last.args.callback = "h1"
    /\ callbacks[_get_gpio(last.args.gpio)] = "h1"

====
